---------------------------- MODULE Spec2Model ----------------------------
(***************************************************************************)
(* A model of the Piksi tracking-channel controller (src/src/track.c) and  *)
(* of the CW sweep channel (src/src/cw.c).                                 *)
(*                                                                         *)
(* Representation of the C values:                                         *)
(*   - u16/u32/s32 values are integers; a u16 is kept modulo 2^16;         *)
(*   - a u64 fixed-point code phase X is the pair <<hi, lo>> with          *)
(*     X = hi * 2^28 + lo and 0 <= lo < 2^28 (hi counts sub-chips, lo the  *)
(*     fractional sub-chip), because TLC's integers are 32 bit;          *)
(*   - carrier_freq, cn0 and the alias error are floats holding integral   *)
(*     values; code_phase_rate and the loop filter's code_freq are held in *)
(*     units of 1/16 Hz (the float resolution at 1.023 MHz);               *)
(*   - the loop filter, C/N0 estimator, alias detector and navigation      *)
(*     message decoder are libraries outside this repository: their       *)
(*     results are inputs drawn from small sets.                           *)
(***************************************************************************)
EXTENDS Integers, Sequences, FiniteSets, TLC

VARIABLES
  tracking_channel,        \* tracking_channel[NAP_MAX_N_TRACK_CHANNELS]
  tracking_lock_counters,  \* static u16 tracking_lock_counters[MAX_SATS]
  loop_params_stage,       \* struct loop_params loop_params_stage[2]
  loop_params_string,      \* char loop_params_string[120]
  isr,                     \* per channel: position of the correlation-ready handler
  n_events,                \* per channel: updates of a Running channel served so far
  n_resets,                \* per satellite: ambiguity resets performed so far
  nap,                     \* register accesses issued by the most recent operation
  ev,                      \* the most recent operation and the path it took
  meas,                    \* channel_measurement_t filled by the last extraction
  sbp,                     \* tracking state message sent by the last snapshot
  hist,                    \* per channel: last correlator dumps read and last
                           \* rate writes issued in the current session, and
                           \* the C/N0 estimate the session was started with
  pcp,                     \* propagate_code_phase: inputs and results
  cw_state,                \* cw_state_t cw_state
  n_sweeps,                \* CW sweeps started so far
  setting_registered       \* whether "track.loop_params" is in the settings list

vars == <<tracking_channel, tracking_lock_counters, loop_params_stage,
          loop_params_string, isr, n_events, n_resets, nap, ev, meas, sbp,
          hist, pcp, cw_state, n_sweeps, setting_registered>>

---------------------------------------------------------------------------
(* Bounds of the model. *)

\* updates of a Running channel served per channel
MaxUpdates == 4
\* updates served while a session is still in stage 0
MaxStage0 == 2
\* ambiguity resets (those of init included) per satellite
MaxResets == 2

\* channels and satellites of the model
Channels == {0, 1}
Sats == {0, 1}

---------------------------------------------------------------------------
(* Program constants. *)

\* 7*24*60*60*1000, one GPS week in ms
WEEK_MS == 604800000
TOW_INVALID == -1
\* the lock counters are u16
U16 == 65536
\* 1 << 24, carrier phase units per cycle
CARRIER_PHASE_UNITS_PER_CYCLE == 16777216
\* 1 << 28: fractional sub-chip units per sub-chip; the nominal code phase rate
TWO28 == 268435456
\* 1 << 14: limb used to multiply without leaving 32 bits
TWO14 == 16384
\* sub-chips per code period, 1023*16
CODE_PERIOD_SUBCHIPS == 16368
\* GPS_CA_CHIPPING_RATE, 1.023e6 Hz, in units of 1/16 Hz
CHIPPING_RATE_Q == 16368000

Abs(x) == IF x < 0 THEN -x ELSE x

\* C conversion of a real to an integer: truncation toward zero of a / b, b > 0
TruncDiv(a, b) == IF a >= 0 THEN a \div b ELSE -((-a) \div b)

\* nearest integer to a / b, b > 0 (conversion of a double to the nearest float)
RoundDiv(a, b) == (2 * a + b) \div (2 * b)

---------------------------------------------------------------------------
(* u64 fixed point code phase as <<hi, lo>>, value hi*2^28 + lo. *)

\* X + n * rate for a u64 X, a u32 sample count n < 2^15 and a u32 rate < 2^30
U64AddMul(X, n, rate) ==
  LET rh == rate \div TWO28
      rl == rate % TWO28
      a  == rl \div TWO14
      b  == rl % TWO14
      na == n * a
      u  == na \div TWO14
      v  == na % TWO14
      lo == X[2] + v * TWO14 + n * b
  IN  <<X[1] + n * rh + u + (lo \div TWO28), lo % TWO28>>

---------------------------------------------------------------------------
(* Loop parameters and the settings string.                                *)
(*                                                                         *)
(* A settings string is a sequence of groups.  A group is the text of one  *)
(* stage: wf says whether it matches the scanf grammar                     *)
(* "( %u ms , ( %f , %f , %f , %f ) , ( %f , %f , %f , %f ) )" with all    *)
(* nine conversions, ms is the unsigned number written, par the eight      *)
(* float tokens, and comma says whether the group is followed by the       *)
(* " , " that lets %n be stored.                                           *)

Group(wf, ms, par, comma) == [wf |-> wf, ms |-> ms, par |-> par, comma |-> comma]

Par1 == <<"1", "0.7", "1", "1540", "10", "0.7", "1", "5">>
Par2 == <<"1", "0.7", "1", "1540", "50", "0.7", "1", "0">>

\* the text of the initial value of loop_params_string
DefaultString == <<Group(TRUE, 1, Par1, TRUE), Group(TRUE, 5, Par2, FALSE)>>

\* sizeof(loop_params_string), the s->len of the setting
SETTING_LEN == 120

\* the decimal digits of an unsigned number
RECURSIVE Digits(_)
Digits(n) == IF n < 10 THEN 1 ELSE 1 + Digits(n \div 10)

\* the characters of one group written as "(5 ms, (a, b, c, d), (e, f, g, h))"
\* and of what follows it: ", " after a comma, " " before a further group
GroupLen(val, i) ==
  LET g == val[i]
  IN  25 + Digits(g.ms)
      + Len(g.par[1]) + Len(g.par[2]) + Len(g.par[3]) + Len(g.par[4])
      + Len(g.par[5]) + Len(g.par[6]) + Len(g.par[7]) + Len(g.par[8])
      + (IF g.comma THEN 2 ELSE IF i < Len(val) THEN 1 ELSE 0)

\* strlen(val)
RECURSIVE TextLenUpTo(_, _)
TextLenUpTo(val, i) == IF i = 0 THEN 0 ELSE TextLenUpTo(val, i - 1) + GroupLen(val, i)
TextLen(val) == TextLenUpTo(val, Len(val))

\* The setting's buffer after strncpy(s->addr, val, s->len): the first len
\* characters of text, followed by a terminating NUL (and padding) only when
\* the text is shorter than the buffer.
setting_strncpy(val) ==
  [text |-> val,
   len  |-> IF TextLen(val) < SETTING_LEN THEN TextLen(val) ELSE SETTING_LEN,
   nul  |-> TextLen(val) < SETTING_LEN]

\* the static initialiser of loop_params_string
DefaultStored == setting_strncpy(DefaultString)

\* loop_params_stage[i] after static initialisation: all zero
ZeroParams == [coherent_ms |-> 0, par |-> <<"0", "0", "0", "0", "0", "0", "0", "0">>]
ZeroStages == <<ZeroParams, ZeroParams>>

\* tmp is an unsigned int, l->coherent_ms a u8
U8Of(tmp) == tmp % 256

\* the validity test of one stage's coherent_ms
coherent_ms_invalid(stage, coherent_ms) ==
  \/ coherent_ms = 0
  \/ 20 % coherent_ms # 0
  \/ (stage = 0 /\ coherent_ms # 1)

\* One pass of the loop body for `stage` with str at group index pos (1-based):
\* the parsed struct, whether the pass returned false, and the new str.
parse_stage(val, stage, pos) ==
  IF pos > Len(val) \/ ~val[pos].wf
  THEN [fail |-> TRUE, l |-> [coherent_ms |-> 0, par |-> <<>>], pos |-> pos]
  ELSE LET l == [coherent_ms |-> U8Of(val[pos].ms), par |-> val[pos].par]
           n_chars_read == IF val[pos].comma THEN 1 ELSE 0
       IN  [fail |-> coherent_ms_invalid(stage, l.coherent_ms),
            l    |-> l,
            pos  |-> pos + n_chars_read]

\* faulty variant: each stage is saved as soon as it has been validated
parse_result_partial(val, old_stage, old_string) ==
  LET s0 == parse_stage(val, 0, 1)
      s1 == parse_stage(val, 1, s0.pos)
  IN  IF s0.fail
      THEN [ok |-> FALSE, stage |-> old_stage, string |-> old_string]
      ELSE IF s1.fail
      THEN [ok |-> FALSE, stage |-> <<s0.l, old_stage[2]>>, string |-> old_string]
      ELSE [ok |-> TRUE, stage |-> <<s0.l, s1.l>>, string |-> setting_strncpy(val)]

\* parse_loop_params as a function: the return value and the new values of
\* loop_params_stage and of the setting's stored string
parse_result(val, old_stage, old_string) ==
  LET s0 == parse_stage(val, 0, 1)
      s1 == parse_stage(val, 1, s0.pos)
  IN  IF s0.fail \/ s1.fail
      THEN [ok |-> FALSE, stage |-> old_stage, string |-> old_string]
      ELSE [ok |-> TRUE, stage |-> <<s0.l, s1.l>>, string |-> setting_strncpy(val)]

---------------------------------------------------------------------------
(* Channel state. *)

\* loop_params_stage is indexed from 0 in C, from 1 here
LP(stage) == loop_params_stage[stage + 1]

\* carrier_freq * NAP_TRACK_CARRIER_FREQ_UNITS_PER_HZ, converted to s32:
\* 2^24 / 16.368e6 = 131072 / 127875
carrier_freq_to_fp(carrier_freq) == TruncDiv(carrier_freq * 131072, 127875)

\* code_phase_rate (1/16 Hz units) * NAP_TRACK_CODE_PHASE_RATE_UNITS_PER_HZ,
\* converted to u32: 2^28 / 1.023e6 per Hz, that is 2^21 / 127875 per 1/16 Hz
code_phase_rate_to_fp(code_phase_rate) ==
  TWO28 + (((code_phase_rate - CHIPPING_RATE_Q) * 2097152) \div 127875)

\* (1 + carrier_freq/GPS_L1_HZ) * GPS_CA_CHIPPING_RATE stored in a float:
\* 1.023e6 + carrier_freq/1540 Hz, to the nearest 1/16 Hz
aided_code_phase_rate(carrier_freq) ==
  CHIPPING_RATE_Q + RoundDiv(carrier_freq * 4, 385)

\* A u32 sample count X is the pair <<hi, lo>> with X = hi * 2^16 + lo and
\* 0 <= hi, lo < 2^16.
\* the u32 holding n, for 0 <= n < 2^31
U32Of(n) == <<n \div U16, n % U16>>

\* X + n on a u32, for 0 <= n < 2^31
U32Add(X, n) ==
  LET lo == X[2] + (n % U16)
  IN  <<(X[1] + (n \div U16) + (lo \div U16)) % U16, lo % U16>>

\* start_sample_count -= 0.5*16: the u32 is converted to double, 8.0 is
\* subtracted and the result converted back to u32.  Below 8 the double is
\* negative and its conversion is undefined: a truncating conversion
\* through a wider integer leaves 2^32 - 8 + start, a saturating one 0.
start_early_counts(start_sample_count) ==
  IF start_sample_count >= 8
  THEN { U32Of(start_sample_count - 8) }
  ELSE { <<U16 - 1, U16 - 8 + start_sample_count>>, <<0, 0>> }

ZeroCorr == [I |-> 0, Q |-> 0]

\* the zero-initialised static struct (TRACKING_DISABLED = 0)
ZeroChannel ==
  [state |-> "DISABLED", prn |-> 0, update_count |-> 0, mode_change_count |-> 0,
   stage |-> 0, TOW_ms |-> 0,
   snr_above_threshold_count |-> 0, snr_below_threshold_count |-> 0,
   tl_state |-> [carr_freq |-> 0, code_freq |-> 0, carr_filt_y |-> 0],
   int_ms |-> 0, code_phase_early |-> <<0, 0>>,
   code_phase_rate_fp |-> 0, code_phase_rate_fp_prev |-> 0, code_phase_rate |-> 0,
   carrier_phase |-> 0, carrier_freq |-> 0,
   carrier_freq_fp |-> 0, carrier_freq_fp_prev |-> 0,
   sample_count |-> <<0, 0>>, corr_sample_count |-> 0,
   cs |-> <<ZeroCorr, ZeroCorr, ZeroCorr>>,
   nav_msg |-> [bit_phase |-> 0, bit_phase_ref |-> 0, bit_polarity |-> "NORMAL"],
   alias_detect |-> [coherent_ms |-> 0, first_I |-> 0, first_Q |-> 0],
   short_cycle |-> FALSE, cn0 |-> 0, lock_counter |-> 0, output_iq |-> FALSE]

\* faulty variant: the increment is lost
lock_counter_stuck(v) == v

\* faulty variant: the increment counts twice
lock_counter_twice(v) == (v + 2) % U16

\* ++tracking_lock_counters[prn] on a u16
lock_counter_next(v) == (v + 1) % U16

\* tracking_channel_ambiguity_unknown on the channel struct, given the
\* incremented table entry
ambiguity_unknown(chan, counter) ==
  [chan EXCEPT !.nav_msg.bit_polarity = "UNKNOWN", !.lock_counter = counter]

\* nap_track_update_wr_blocking(channel, carrier_freq, code_phase_rate,
\*                              rollover_count, corr_spacing)
UpdateWr(c, carrier_freq_fp, code_phase_rate_fp, rollover_count, corr_spacing) ==
  [reg |-> "track_update", ch |-> c, carrier_freq |-> carrier_freq_fp,
   code_phase_rate |-> code_phase_rate_fp,
   rollover_count |-> rollover_count, corr_spacing |-> corr_spacing]

\* faulty variant: init starts the channel without resetting its struct
init_chan_stale(chan, prn, carrier_freq, early_sample_count, counter, l0, l1) ==
  [ambiguity_unknown(chan, counter) EXCEPT !.state = "RUNNING", !.prn = prn]

\* the struct after tracking_channel_init; early_sample_count is the start
\* sample count after its adjustment to the EARLY rollover
init_chan(chan, prn, carrier_freq, early_sample_count, counter, l0, l1) ==
  LET code_phase_rate == aided_code_phase_rate(carrier_freq)
      c1 == [chan EXCEPT !.state = "RUNNING", !.prn = prn, !.update_count = 0,
                         !.mode_change_count = 0, !.stage = 0]
      c2 == [ambiguity_unknown(c1, counter) EXCEPT !.TOW_ms = TOW_INVALID]
  IN  [c2 EXCEPT
         !.snr_above_threshold_count = 0,
         !.snr_below_threshold_count = 0,
         !.tl_state = [carr_freq |-> carrier_freq,
                       code_freq |-> code_phase_rate - CHIPPING_RATE_Q,
                       carr_filt_y |-> carrier_freq],
         !.int_ms = l0.coherent_ms,
         !.code_phase_early = <<0, 0>>,
         !.code_phase_rate_fp = code_phase_rate_to_fp(code_phase_rate),
         !.code_phase_rate_fp_prev = code_phase_rate_to_fp(code_phase_rate),
         !.code_phase_rate = code_phase_rate,
         !.carrier_phase = 0,
         !.carrier_freq = carrier_freq,
         !.carrier_freq_fp = carrier_freq_to_fp(carrier_freq),
         !.carrier_freq_fp_prev = carrier_freq_to_fp(carrier_freq),
         !.sample_count = early_sample_count,
         !.nav_msg = [bit_phase |-> 0, bit_phase_ref |-> -1,
                      bit_polarity |-> "UNKNOWN"],
         !.short_cycle = TRUE,
         !.alias_detect.coherent_ms = l1.coherent_ms]

\* faulty variant: disable clears the channel struct
disable_chan_clear(chan) == [ZeroChannel EXCEPT !.prn = chan.prn]

\* the struct after tracking_channel_disable
disable_chan(chan) == [chan EXCEPT !.state = "DISABLED"]

---------------------------------------------------------------------------
(* Correlation readout. *)

\* element-wise sum of two correlation triples
AddCorrs(a, b) ==
  [i \in 1..3 |-> [I |-> a[i].I + b[i].I, Q |-> a[i].Q + b[i].Q]]

\* faulty variant: every readout is taken as a fresh accumulator
is_long_cycle_never(chan) == FALSE

\* whether a readout is the long half of a short/long pair
is_long_cycle(chan) == chan.int_ms > 1 /\ ~chan.short_cycle

\* faulty variant: the long half does not record its sample count
get_corrs_chan_unrecorded(chan, hw) ==
  IF chan.state = "RUNNING"
  THEN IF chan.int_ms > 1 /\ ~chan.short_cycle
       THEN [chan EXCEPT !.cs = AddCorrs(chan.cs, hw.cs)]
       ELSE [chan EXCEPT !.corr_sample_count = hw.n,
                         !.cs = hw.cs,
                         !.alias_detect.first_I = hw.cs[2].I,
                         !.alias_detect.first_Q = hw.cs[2].Q]
  ELSE chan

\* the struct after tracking_channel_get_corrs, the hardware delivering
\* hw = [n |-> elapsed samples, cs |-> <<early, prompt, late>>]
get_corrs_chan(chan, hw) ==
  IF chan.state = "RUNNING"
  THEN IF is_long_cycle(chan)
       THEN [chan EXCEPT !.corr_sample_count = hw.n,
                         !.cs = AddCorrs(chan.cs, hw.cs)]
       ELSE [chan EXCEPT !.corr_sample_count = hw.n,
                         !.cs = hw.cs,
                         !.alias_detect.first_I = hw.cs[2].I,
                         !.alias_detect.first_Q = hw.cs[2].Q]
  ELSE chan

---------------------------------------------------------------------------
(* The update cycle of a Running channel. *)

\* faulty variant: the phases are advanced with the newly commanded rates
update_bookkeeping_current(chan) ==
  LET n  == chan.corr_sample_count
      cp == chan.carrier_phase + chan.carrier_freq_fp * n
  IN  [chan EXCEPT
         !.sample_count = U32Add(chan.sample_count, n),
         !.code_phase_early =
            U64AddMul(chan.code_phase_early, n, chan.code_phase_rate_fp),
         !.carrier_phase = IF chan.update_count = 0
                           THEN cp - chan.carrier_freq_fp ELSE cp,
         !.code_phase_rate_fp_prev = chan.code_phase_rate_fp,
         !.carrier_freq_fp_prev = chan.carrier_freq_fp]

\* faulty variant: the one-sample compensation is applied in every update
update_bookkeeping_always(chan) ==
  LET n  == chan.corr_sample_count
      cp == chan.carrier_phase + chan.carrier_freq_fp_prev * n
  IN  [chan EXCEPT
         !.sample_count = U32Add(chan.sample_count, n),
         !.code_phase_early =
            U64AddMul(chan.code_phase_early, n, chan.code_phase_rate_fp_prev),
         !.carrier_phase = cp - chan.carrier_freq_fp_prev,
         !.code_phase_rate_fp_prev = chan.code_phase_rate_fp,
         !.carrier_freq_fp_prev = chan.carrier_freq_fp]

\* sample count and phase accumulation with the previous rates, then the
\* roll of the previous rates
update_bookkeeping(chan) ==
  LET n  == chan.corr_sample_count
      cp == chan.carrier_phase + chan.carrier_freq_fp_prev * n
  IN  [chan EXCEPT
         !.sample_count = U32Add(chan.sample_count, n),
         !.code_phase_early =
            U64AddMul(chan.code_phase_early, n, chan.code_phase_rate_fp_prev),
         !.carrier_phase = IF chan.update_count = 0
                           THEN cp - chan.carrier_freq_fp_prev ELSE cp,
         !.code_phase_rate_fp_prev = chan.code_phase_rate_fp,
         !.carrier_freq_fp_prev = chan.carrier_freq_fp]

\* faulty variant: the advance is not wrapped at the end of the week
tow_advance_nowrap(TOW_ms, short_cycle, int_ms) ==
  IF TOW_ms # TOW_INVALID
  THEN TOW_ms + (IF short_cycle THEN 1 ELSE int_ms - 1)
  ELSE TOW_ms

\* faulty variant: the long cycle advances by the whole coherent length
tow_advance_whole(TOW_ms, short_cycle, int_ms) ==
  IF TOW_ms # TOW_INVALID
  THEN (TOW_ms + (IF short_cycle THEN 1 ELSE int_ms)) % WEEK_MS
  ELSE TOW_ms

\* the TOW after the millisecond advance of one update
tow_advance(TOW_ms, short_cycle, int_ms) ==
  IF TOW_ms # TOW_INVALID
  THEN (TOW_ms + (IF short_cycle THEN 1 ELSE int_ms - 1)) % WEEK_MS
  ELSE TOW_ms

\* faulty variant: short_cycle is never flipped
short_cycle_flip_never(chan) == chan

\* the flip of short_cycle made by every update with int_ms > 1
short_cycle_flip(chan) ==
  IF chan.int_ms > 1 THEN [chan EXCEPT !.short_cycle = ~chan.short_cycle] ELSE chan

\* whether the update, after the flip, writes the registers early and returns
returns_early(flipped) == flipped.int_ms > 1 /\ ~flipped.short_cycle

\* the TOW after the decoder returned the candidate TOW_ms
tow_adopt(chan_TOW_ms, TOW_ms) ==
  IF TOW_ms > 0 /\ chan_TOW_ms # TOW_ms THEN TOW_ms ELSE chan_TOW_ms

\* whether the alias detector's error is taken as a false lock
false_lock(chan, err) == chan.int_ms # 1 /\ Abs(err) > 250 \div chan.int_ms

\* faulty variant: promotion without waiting for bit sync
promotes_unsynced(chan) == chan.stage = 0 /\ chan.int_ms = 1

\* the stage promotion test, after the decoder ran
promotes(chan) ==
  /\ chan.stage = 0
  /\ chan.int_ms = 1
  /\ chan.nav_msg.bit_phase = chan.nav_msg.bit_phase_ref

\* the stage promotion itself
promote(chan, l) ==
  [chan EXCEPT !.stage = 1,
               !.int_ms = l.coherent_ms,
               !.short_cycle = TRUE,
               !.mode_change_count = chan.update_count]

\* the cycle-length field of the register write
rollover_count(int_ms) == IF int_ms = 1 THEN 0 ELSE int_ms - 2

\* The full pipeline on the struct b left by the bookkeeping and the short
\* cycle flip.  nav is what nav_msg_update leaves and returns, eng what
\* cn0_est, aided_tl_update and alias_detect_second return.
full_pipeline(b, nav, eng, l1) ==
  LET c1 == [b EXCEPT
               !.update_count = b.update_count + b.int_ms,
               !.nav_msg = [bit_phase |-> nav.bit_phase,
                            bit_phase_ref |-> nav.bit_phase_ref,
                            bit_polarity |-> IF nav.bit_polarity = "KEEP"
                                             THEN b.nav_msg.bit_polarity
                                             ELSE nav.bit_polarity],
               !.TOW_ms = tow_adopt(b.TOW_ms, nav.TOW_ms),
               !.cn0 = eng.cn0]
      code_phase_rate == eng.code_freq + CHIPPING_RATE_Q
      c2 == [c1 EXCEPT
               !.tl_state = [carr_freq |-> eng.carr_freq,
                             code_freq |-> eng.code_freq,
                             carr_filt_y |-> eng.carr_freq],
               !.carrier_freq = eng.carr_freq,
               !.code_phase_rate = code_phase_rate,
               !.code_phase_rate_fp_prev = c1.code_phase_rate_fp,
               !.code_phase_rate_fp = code_phase_rate_to_fp(code_phase_rate),
               !.carrier_freq_fp = carrier_freq_to_fp(eng.carr_freq)]
      c3 == IF false_lock(c2, eng.err)
            THEN [c2 EXCEPT
                    !.mode_change_count = c2.update_count,
                    !.tl_state.carr_freq = c2.tl_state.carr_freq + eng.err,
                    !.tl_state.carr_filt_y = c2.tl_state.carr_freq + eng.err]
            ELSE c2
  IN  IF promotes(c3) THEN promote(c3, l1) ELSE c3

\* the struct after tracking_channel_update on a Running channel
update_running(chan, nav, eng, l1) ==
  LET b0 == update_bookkeeping(chan)
      b1 == [b0 EXCEPT !.TOW_ms = tow_advance(b0.TOW_ms, b0.short_cycle, b0.int_ms)]
      b  == short_cycle_flip(b1)
  IN  IF returns_early(b) THEN b ELSE full_pipeline(b, nav, eng, l1)

\* whether tracking_channel_update on this Running channel is a short half
is_short_half(chan) == returns_early(short_cycle_flip(chan))

\* faulty variant: the cycle-length field is taken from the coherent length
\* the update began with
update_write_stale(c, chan, after) ==
  IF returns_early(short_cycle_flip(chan))
  THEN UpdateWr(c, chan.carrier_freq_fp, chan.code_phase_rate_fp, 0, 0)
  ELSE UpdateWr(c, after.carrier_freq_fp, after.code_phase_rate_fp,
                IF chan.int_ms = 1 THEN 0 ELSE chan.int_ms - 2, 0)

\* the register write of tracking_channel_update on a Running channel
update_write(c, chan, after) ==
  IF is_short_half(chan)
  THEN UpdateWr(c, chan.carrier_freq_fp, chan.code_phase_rate_fp, 0, 0)
  ELSE UpdateWr(c, after.carrier_freq_fp, after.code_phase_rate_fp,
                rollover_count(after.int_ms), 0)

---------------------------------------------------------------------------
(* Measurement extraction. *)

\* tracking_channel_snr
tracking_channel_snr(chan) == chan.cn0

\* faulty variant: the half cycle is added whenever the polarity is not normal
half_cycle_offset_not_normal(bit_polarity) ==
  IF bit_polarity # "NORMAL" THEN CARRIER_PHASE_UNITS_PER_CYCLE \div 2 ELSE 0

\* the half cycle added to the carrier phase, in units of 2^-24 cycle
half_cycle_offset(bit_polarity) ==
  IF bit_polarity = "INVERTED" THEN CARRIER_PHASE_UNITS_PER_CYCLE \div 2 ELSE 0

\* The channel_measurement_t written by tracking_update_measurement.
\* carrier_phase is in units of 2^-24 cycle, code_phase_chips in units of
\* 2^-32 chip (as <<hi, lo>>), receiver_time in samples.
measurement(chan) ==
  [prn |-> chan.prn,
   code_phase_chips |-> chan.code_phase_early,
   code_phase_rate |-> chan.code_phase_rate,
   carrier_phase |-> chan.carrier_phase + half_cycle_offset(chan.nav_msg.bit_polarity),
   carrier_freq |-> chan.carrier_freq,
   time_of_week_ms |-> chan.TOW_ms,
   receiver_time |-> chan.sample_count,
   snr |-> tracking_channel_snr(chan),
   lock_counter |-> chan.lock_counter]

NoMeas == [prn |-> -1]

---------------------------------------------------------------------------
(* Inputs. *)

\* carrier frequency estimates handed over by acquisition, Hz
InitFreqs == {1000}
\* start sample counts
StartCounts == {100000}
\* a start less than the 8 samples the early tap lies before the prompt tap
LowStartCounts == {3}
\* C/N0 estimates handed over by acquisition
Cn0Inits == {40}

\* correlator dumps: elapsed samples and the early, prompt, late taps
Readouts ==
  { [n |-> 16368, cs |-> <<[I |-> 900, Q |-> 20], [I |-> 2000, Q |-> 40],
                           [I |-> 1000, Q |-> 30]>>],
    [n |-> 16367, cs |-> <<[I |-> -700, Q |-> 10], [I |-> -1500, Q |-> 60],
                           [I |-> -800, Q |-> 5]>>] }

\* a TOW two ms before the week rolls over
TowNearWeekEnd == WEEK_MS - 2

\* what nav_msg_update leaves in the decoder and returns: no bit sync yet;
\* a TOW decoded between two bit edges; a bit edge with TOW candidate 0
NavOutcomes ==
  { [TOW_ms |-> TOW_INVALID, bit_phase |-> 1, bit_phase_ref |-> -1,
     bit_polarity |-> "KEEP"],
    [TOW_ms |-> TowNearWeekEnd, bit_phase |-> 1, bit_phase_ref |-> 0,
     bit_polarity |-> "INVERTED"],
    [TOW_ms |-> 0, bit_phase |-> 0, bit_phase_ref |-> 0,
     bit_polarity |-> "NORMAL"] }

\* what cn0_est, aided_tl_update (carrier Hz, code 1/16 Hz) and
\* alias_detect_second (Hz) return in one cycle
EngineOutcomes ==
  { [cn0 |-> 35, carr_freq |-> 1100, code_freq |-> 11, err |-> 20],
    [cn0 |-> 45, carr_freq |-> 900, code_freq |-> 9, err |-> -100] }

\* lock counter seeds drawn by random_int(), per satellite: one about to
\* wrap, one far from it
LockSeeds == [p \in Sats |-> IF p = 0 THEN U16 - 2 ELSE 3]

---------------------------------------------------------------------------
(* Operations. *)

\* the last two elements of a sequence extended by x
Last2(seq, x) == IF Len(seq) < 2 THEN Append(seq, x) ELSE <<seq[2], x>>

NoHist == [rd |-> << >>, wr |-> << >>, cn0_init |-> -1]

NoSbp == [msg |-> "none"]

NoEv == [op |-> "none", ch |-> -1, path |-> "", promoted |-> FALSE,
         false_lock |-> FALSE, nav |-> <<>>, eng |-> <<>>, arg |-> <<>>]

Event(op, c, path) == [NoEv EXCEPT !.op = op, !.ch = c, !.path = path]

\* 500/loop_params_stage[1].coherent_ms in tracking_channel_init is an
\* integer division: by zero it is undefined, and either traps, which ends
\* the program inside init, or leaves some quotient and init goes on
alias_acc_len_outcomes ==
  IF LP(1).coherent_ms = 0 THEN {"trap", "quotient"} ELSE {"defined"}

tracking_channel_init(c, prn, carrier_freq, start_sample_count, cn0_init) ==
  \E early \in start_early_counts(start_sample_count), div \in alias_acc_len_outcomes :
    LET counter == lock_counter_next(tracking_lock_counters[prn])
        chan == init_chan(tracking_channel[c], prn, carrier_freq,
                          early, counter, LP(0), LP(1))
        \* the struct when the program is ended at alias_detect_init
        trapped == [chan EXCEPT !.alias_detect = tracking_channel[c].alias_detect]
        wr == UpdateWr(c, carrier_freq_to_fp(carrier_freq), chan.code_phase_rate_fp, 0, 0)
    IN  /\ n_resets[prn] < MaxResets
        /\ tracking_channel' =
             [tracking_channel EXCEPT ![c] = IF div = "trap" THEN trapped ELSE chan]
        /\ tracking_lock_counters' = [tracking_lock_counters EXCEPT ![prn] = counter]
        /\ n_resets' = [n_resets EXCEPT ![prn] = @ + 1]
        /\ hist' = [hist EXCEPT ![c] =
                      [rd |-> << >>,
                       wr |-> IF div = "trap" THEN << >> ELSE << wr >>,
                       cn0_init |-> cn0_init]]
        /\ sbp' = NoSbp
        /\ nap' = IF div = "trap" THEN << >>
                  ELSE << [reg |-> "track_code", ch |-> c, prn |-> prn],
                          [reg |-> "track_init", ch |-> c, prn |-> prn,
                           carrier_phase |-> 0, code_phase |-> 0],
                          wr,
                          [reg |-> "timing_strobe", count |-> early] >>
        /\ ev' = [Event("init", c, IF div = "trap" THEN "trap" ELSE "") EXCEPT
                    !.arg = <<prn, carrier_freq, start_sample_count, cn0_init>>]
        /\ meas' = NoMeas
        /\ UNCHANGED <<loop_params_stage, loop_params_string, isr, n_events, pcp,
                       cw_state, n_sweeps,
                    setting_registered>>

tracking_channel_get_corrs(c, hw) ==
  LET chan == tracking_channel[c]
  IN  /\ isr[c] = "idle"
      /\ chan.state = "RUNNING" =>
           /\ n_events[c] < MaxUpdates
           /\ chan.stage = 0 => chan.update_count < MaxStage0
      /\ tracking_channel' = [tracking_channel EXCEPT ![c] = get_corrs_chan(chan, hw)]
      /\ isr' = [isr EXCEPT ![c] = "got_corrs"]
      /\ nap' = IF chan.state = "RUNNING"
                THEN << [reg |-> "track_corr", ch |-> c] >> ELSE << >>
      /\ ev' = [Event("get_corrs", c,
                      IF chan.state # "RUNNING" THEN "none"
                      ELSE IF is_long_cycle(chan) THEN "accumulate" ELSE "overwrite")
                  EXCEPT !.arg = hw]
      /\ hist' = IF chan.state = "RUNNING"
                 THEN [hist EXCEPT ![c].rd = Last2(@, hw)]
                 ELSE hist
      /\ meas' = NoMeas
      /\ sbp' = NoSbp
      /\ UNCHANGED <<tracking_lock_counters, loop_params_stage, loop_params_string,
                     n_events, n_resets, pcp,
                     cw_state, n_sweeps,
                    setting_registered>>

\* the SBP_MSG_TRACKING_IQ message of a full update
tracking_iq(c, chan) ==
  [msg |-> "TRACKING_IQ", channel |-> c, sid |-> chan.prn, corrs |-> chan.cs]

tracking_channel_update(c, nav, eng) ==
  LET chan == tracking_channel[c]
      after == update_running(chan, nav, eng, LP(1))
  IN  /\ isr[c] = "got_corrs"
      /\ isr' = [isr EXCEPT ![c] = "idle"]
      /\ IF chan.state = "RUNNING"
         THEN /\ tracking_channel' = [tracking_channel EXCEPT ![c] = after]
              /\ nap' = << update_write(c, chan, after) >>
              /\ hist' = [hist EXCEPT ![c].wr = Last2(@, update_write(c, chan, after))]
              /\ n_events' = [n_events EXCEPT ![c] = @ + 1]
              /\ ev' = IF is_short_half(chan)
                       THEN Event("update", c, "short")
                       ELSE [Event("update", c, "full") EXCEPT
                               !.promoted = (chan.stage = 0 /\ after.stage = 1),
                               !.false_lock = false_lock(chan, eng.err),
                               !.nav = nav, !.eng = eng]
         ELSE /\ tracking_channel' =
                   [tracking_channel EXCEPT ![c] = disable_chan(chan)]
              /\ nap' = << UpdateWr(c, 0, 0, 0, 0) >>
              /\ hist' = [hist EXCEPT ![c].wr = Last2(@, UpdateWr(c, 0, 0, 0, 0))]
              /\ ev' = Event("update", c, "fallback")
              /\ UNCHANGED n_events
      /\ meas' = NoMeas
      /\ sbp' = IF chan.state = "RUNNING" /\ ~is_short_half(chan)
                   /\ chan.output_iq /\ chan.int_ms > 1
                THEN tracking_iq(c, chan) ELSE NoSbp
      /\ UNCHANGED <<tracking_lock_counters, loop_params_stage, loop_params_string,
                     n_resets, pcp,
                     cw_state, n_sweeps,
                    setting_registered>>

tracking_channel_disable(c) ==
  /\ tracking_channel' =
       [tracking_channel EXCEPT ![c] = disable_chan(tracking_channel[c])]
  /\ nap' = << UpdateWr(c, 0, 0, 0, 0) >>
  /\ hist' = [hist EXCEPT ![c].wr = Last2(@, UpdateWr(c, 0, 0, 0, 0))]
  /\ ev' = Event("disable", c, "")
  /\ meas' = NoMeas
  /\ sbp' = NoSbp
  /\ UNCHANGED <<tracking_lock_counters, loop_params_stage, loop_params_string,
                 isr, n_events, n_resets, pcp,
                 cw_state, n_sweeps,
                    setting_registered>>

tracking_channel_ambiguity_unknown(c) ==
  LET prn == tracking_channel[c].prn
      counter == lock_counter_next(tracking_lock_counters[prn])
  IN  /\ n_resets[prn] < MaxResets
      /\ tracking_channel' =
           [tracking_channel EXCEPT ![c] = ambiguity_unknown(tracking_channel[c], counter)]
      /\ tracking_lock_counters' = [tracking_lock_counters EXCEPT ![prn] = counter]
      /\ n_resets' = [n_resets EXCEPT ![prn] = @ + 1]
      /\ nap' = << >>
      /\ ev' = Event("ambiguity_unknown", c, "")
      /\ meas' = NoMeas
      /\ sbp' = NoSbp
      /\ UNCHANGED <<loop_params_stage, loop_params_string, isr, n_events, hist, pcp,
                     cw_state, n_sweeps,
                    setting_registered>>

tracking_update_measurement(c) ==
  /\ meas' = measurement(tracking_channel[c])
  /\ nap' = << >>
  /\ ev' = Event("measurement", c, "")
  /\ sbp' = NoSbp
  /\ UNCHANGED <<tracking_channel, tracking_lock_counters, loop_params_stage,
                 loop_params_string, isr, n_events, n_resets, hist, pcp,
                 cw_state, n_sweeps,
                    setting_registered>>

\* simulation_current_tracking_state(i)
SimState(i) == [state |-> "RUNNING", sid |-> 20 + i, cn0 |-> 40 + i]

\* the entry written for a channel slot not covered by the simulation
DisabledEntry == [state |-> "DISABLED", sid |-> 0, cn0 |-> -1]

\* the entries of states[nap_track_n_channels] written by tracking_send_state;
\* sim = [enabled |-> simulation_enabled_for(SIMULATION_MODE_TRACKING),
\*        num_sats |-> simulation_current_num_sats()]
tracking_states(sim) ==
  IF sim.enabled
  THEN [i \in Channels |-> IF i < sim.num_sats THEN SimState(i) ELSE DisabledEntry]
  ELSE [i \in Channels |->
          [state |-> tracking_channel[i].state,
           sid   |-> tracking_channel[i].prn,
           cn0   |-> IF tracking_channel[i].state = "RUNNING"
                     THEN tracking_channel_snr(tracking_channel[i]) ELSE -1]]

\* the indices past the end of states[] that the simulated branch writes
states_overrun(sim) ==
  IF sim.enabled
  THEN {i \in 0..(sim.num_sats - 1) : i >= Cardinality(Channels)}
  ELSE {}

\* tracking_send_state.  A write past the end of states[] is undefined
\* behaviour: the message may go out with the entries as written, or the
\* overwritten stack may make the function do anything else.
tracking_send_state(sim, outcome) ==
  /\ states_overrun(sim) = {} => outcome = "as_written"
  /\ sbp' = IF outcome = "as_written"
            THEN [msg |-> "TRACKING_STATE", states |-> tracking_states(sim),
                  overrun |-> states_overrun(sim)]
            ELSE [msg |-> "undefined"]
  /\ nap' = << >>
  /\ ev' = [Event("send_state", -1, IF sim.enabled THEN "simulated" ELSE "normal")
              EXCEPT !.arg = sim]
  /\ meas' = NoMeas
  /\ UNCHANGED <<tracking_channel, tracking_lock_counters, loop_params_stage,
                 loop_params_string, isr, n_events, n_resets, hist, pcp,
                 cw_state, n_sweeps,
                    setting_registered>>

\* parse_loop_params: the notify callback of the "track.loop_params" setting
parse_loop_params(val) ==
  LET r == parse_result(val, loop_params_stage, loop_params_string)
  IN  /\ loop_params_stage' = r.stage
      /\ loop_params_string' = r.string
      /\ nap' = << >>
      /\ ev' = [Event("parse", -1, IF r.ok THEN "true" ELSE "false") EXCEPT !.arg = val]
      /\ meas' = NoMeas
      /\ sbp' = NoSbp
      /\ UNCHANGED <<tracking_channel, tracking_lock_counters, isr, n_events,
                     n_resets, hist, pcp,
                     cw_state, n_sweeps,
                    setting_registered>>

\* tracking_setup: SETTING_NOTIFY hands the setting (the buffer
\* loop_params_string, its size and parse_loop_params as the notify callback)
\* to settings_register; nothing else is written
tracking_setup ==
  /\ setting_registered' = TRUE
  /\ nap' = << >>
  /\ ev' = Event("setup", -1, "")
  /\ meas' = NoMeas
  /\ sbp' = NoSbp
  /\ UNCHANGED <<tracking_channel, tracking_lock_counters, loop_params_stage,
                 loop_params_string, isr, n_events, n_resets, hist, pcp,
                 cw_state, n_sweeps>>

\* the settings module applying the initial value of the registered setting:
\* the notify callback called with the text of loop_params_string
settings_apply_initial ==
  /\ setting_registered
  /\ loop_params_stage = ZeroStages
  /\ loop_params_string.nul
  /\ parse_loop_params(loop_params_string.text)

\* the loop parameters have been applied and the program has not been ended
Operational == loop_params_stage # ZeroStages /\ ev.path # "trap"

---------------------------------------------------------------------------
(* propagate_code_phase. *)

\* floor(x * 2^k / d) with its remainder, for d < 2^30, by repeated doubling
RECURSIVE FloorShiftDiv(_, _, _)
FloorShiftDiv(x, k, d) ==
  IF k = 0 THEN <<x \div d, x % d>>
  ELSE LET h == FloorShiftDiv(x, k - 1, d)
       IN  <<2 * h[1] + ((2 * h[2]) \div d), (2 * h[2]) % d>>

\* u32 code_phase_rate = (1.0 + carrier_freq/GPS_L1_HZ) * NAP_TRACK_NOMINAL_CODE_PHASE_RATE
\* with 2^28 / 1.57542e9 = 2^23 / 49231875
aided_rate_fp(carrier_freq) == TWO28 + FloorShiftDiv(carrier_freq, 23, 49231875)[1]

\* faulty variant: rollover at 1024 chips
code_wrap_1024 == 1024 * 16

\* the modulus of the conversion back to sub-chips
code_wrap == CODE_PERIOD_SUBCHIPS

\* propagate_code_phase.  A float code phase p (chips) is given by the u64
\* p * 2^32 as <<hi, lo>>; the float result, a multiple of 1/16 chip, likewise.
propagate_code_phase(code_phase, carrier_freq, n_samples) ==
  LET propagated_code_phase ==
        U64AddMul(code_phase, n_samples, aided_rate_fp(carrier_freq))
  IN  <<propagated_code_phase[1] % code_wrap, 0>>

\* code phases: sub-chips and fractional sub-chip of floats (24 significant
\* bits) below 1023 chips
PropPhases ==
  { <<0, 0>>, <<1, TWO28 \div 2>>, <<8191, TWO28 - 131072>>, <<8192, TWO28 - 262144>>,
    <<16367, 0>>, <<16367, TWO28 - 262144>> }
\* carrier frequencies, Hz
PropFreqs == {-5000, 0, 3000}
\* sample counts
PropSamples == {0, 1, 7, 16000, 16368}

PropFirst ==
  /\ pcp.step = 0
  /\ pcp' = [pcp EXCEPT !.step = 1,
               !.r1 = propagate_code_phase(pcp.code_phase, pcp.carrier_freq, pcp.n1)]
  /\ UNCHANGED <<tracking_channel, tracking_lock_counters, loop_params_stage,
                 loop_params_string, isr, n_events, n_resets, nap, ev, meas, sbp, hist,
                 cw_state, n_sweeps,
                    setting_registered>>

PropSecond ==
  /\ pcp.step = 1
  /\ pcp' = [pcp EXCEPT !.step = 2,
               !.r12 = propagate_code_phase(pcp.r1, pcp.carrier_freq, pcp.n2)]
  /\ UNCHANGED <<tracking_channel, tracking_lock_counters, loop_params_stage,
                 loop_params_string, isr, n_events, n_resets, nap, ev, meas, sbp, hist,
                 cw_state, n_sweeps,
                    setting_registered>>

PropSum ==
  /\ pcp.step = 2
  /\ pcp' = [pcp EXCEPT !.step = 3,
               !.rsum = propagate_code_phase(pcp.code_phase, pcp.carrier_freq,
                                             pcp.n1 + pcp.n2)]
  /\ UNCHANGED <<tracking_channel, tracking_lock_counters, loop_params_stage,
                 loop_params_string, isr, n_events, n_resets, nap, ev, meas, sbp, hist,
                 cw_state, n_sweeps,
                    setting_registered>>

---------------------------------------------------------------------------
(* The CW sweep channel (src/src/cw.c).  cw_state_t, SPECTRUM_LEN and       *)
(* NAP_CW_FREQ_UNITS_PER_HZ come from cw.h and board/nap/cw_channel.h:     *)
(* freq_min, freq_max, freq_step and freq are s32, count is a u16.         *)

\* length of cw_state.spectrum_power
SPECTRUM_LEN == 301

\* NAP_CW_FREQ_UNITS_PER_HZ = 2^32 / 16.368e6 = 2^25 / 127875
\*                          = 262 + 51182 / 127875
CW_UNITS_WHOLE == 262
CW_UNITS_REM == 51182
CW_UNITS_DEN == 127875

\* the smallest integer not below a / b, for b > 0
CeilDiv(a, b) == -((-a) \div b)

\* freq * NAP_CW_FREQ_UNITS_PER_HZ converted to s32 (towards zero)
cw_freq_units(freq) ==
  freq * CW_UNITS_WHOLE + TruncDiv(freq * CW_UNITS_REM, CW_UNITS_DEN)

\* ceil(freq_bin_width * NAP_CW_FREQ_UNITS_PER_HZ)
cw_step_units(freq_bin_width) ==
  freq_bin_width * CW_UNITS_WHOLE + CeilDiv(freq_bin_width * CW_UNITS_REM, CW_UNITS_DEN)

\* (u64)cs.I*(u64)cs.I + (u64)cs.Q*(u64)cs.Q: the sign extension of a
\* negative tap cancels in the square modulo 2^64
cw_power(cs) == cs.I * cs.I + cs.Q * cs.Q

\* 1 << 24: a float holds 24 significant bits
TWO24 == 16777216

\* the spacing q of the floats around an integer of magnitude a: the least
\* power of two with a < 2^24 * q
RECURSIVE F32Quantum(_, _)
F32Quantum(a, q) == IF a \div q < TWO24 THEN q ELSE F32Quantum(a, 2 * q)

\* The conversion of an s32 to float (round to nearest, ties to even).  The
\* float is held as [m, q], standing for m * q, with |m| < 2^24 and q a power
\* of two, q = 1 when the integer is below 2^24 in magnitude.
F32Of(n) ==
  LET a == Abs(n)
      sign == IF n < 0 THEN -1 ELSE 1
      q == F32Quantum(a, 1)
      lo == a \div q
      r == a % q
      m == IF 2 * r > q \/ (2 * r = q /\ lo % 2 = 1) THEN lo + 1 ELSE lo
  IN  IF m = TWO24
      THEN [m |-> sign * (TWO24 \div 2), q |-> 2 * q]
      ELSE [m |-> sign * m, q |-> q]

\* cw_send_result(float freq, u64 power): the s32 frequency is converted to
\* float by the call
cw_send_result(freq, power) ==
  [msg |-> "CW_RESULTS", freq |-> F32Of(freq), power |-> power]

\* the zero-initialised cw_state (CW_DISABLED = 0)
ZeroCw ==
  [state |-> "CW_DISABLED", freq_step |-> 0, freq_min |-> 0, freq_max |-> 0,
   freq |-> 0, count |-> 0,
   spectrum_power |-> [i \in 0..(SPECTRUM_LEN - 1) |-> 0]]

\* nap_cw_init_wr_params_blocking(freq) and nap_cw_init_wr_disable_blocking()
CwInitParams(freq) == [reg |-> "cw_init", disable |-> FALSE, freq |-> freq]
CwInitDisable == [reg |-> "cw_init", disable |-> TRUE, freq |-> 0]

\* interrupts served within one sweep
MaxCwIrqs == SPECTRUM_LEN + 3
\* sweeps started
MaxSweeps == 2

\* cw_start
cw_start(freq_min, freq_max, freq_bin_width) ==
  LET started == [cw_state EXCEPT
                    !.freq_step = cw_step_units(freq_bin_width),
                    !.freq_min = cw_freq_units(freq_min),
                    !.freq_max = cw_freq_units(freq_max),
                    !.state = "CW_RUNNING",
                    !.count = 0,
                    !.freq = cw_freq_units(freq_min)]
  IN  /\ n_sweeps < MaxSweeps
      /\ n_sweeps' = n_sweeps + 1
      /\ cw_state' = started
      /\ nap' = << CwInitParams(started.freq_min),
                   CwInitParams(started.freq + started.freq_step) >>
      /\ ev' = [Event("cw_start", -1, "") EXCEPT
                  !.arg = <<freq_min, freq_max, freq_bin_width>>]
      /\ meas' = NoMeas
      /\ sbp' = NoSbp
      /\ UNCHANGED <<tracking_channel, tracking_lock_counters, loop_params_stage,
                     loop_params_string, isr, n_events, n_resets, hist, pcp,
                    setting_registered>>

\* cw_schedule_load: the state is set before the load is enabled and the
\* timing strobe scheduled at count
cw_schedule_load(count) ==
  /\ cw_state' = [cw_state EXCEPT !.state = "CW_LOADING"]
  /\ nap' = << [reg |-> "cw_load", enable |-> TRUE],
               [reg |-> "timing_strobe", count |-> U32Of(count)] >>
  /\ ev' = [Event("cw_schedule_load", -1, "") EXCEPT !.arg = count]
  /\ meas' = NoMeas
  /\ sbp' = NoSbp
  /\ UNCHANGED <<tracking_channel, tracking_lock_counters, loop_params_stage,
                 loop_params_string, isr, n_events, n_resets, hist, pcp, n_sweeps,
                 setting_registered>>

\* cw_service_load_done, the handler of the load done interrupt
cw_service_load_done ==
  /\ cw_state' = [cw_state EXCEPT !.state = "CW_LOADING_DONE"]
  /\ nap' = << [reg |-> "cw_load", enable |-> FALSE] >>
  /\ ev' = Event("cw_load_done", -1, "")
  /\ meas' = NoMeas
  /\ sbp' = NoSbp
  /\ UNCHANGED <<tracking_channel, tracking_lock_counters, loop_params_stage,
                 loop_params_string, isr, n_events, n_resets, hist, pcp, n_sweeps,
                 setting_registered>>

\* cw_state after the CW_RUNNING case of cw_service_irq
cw_running_irq(st, cs) ==
  LET recorded == IF st.count < SPECTRUM_LEN
                  THEN [st EXCEPT !.spectrum_power[st.count] = cw_power(cs)]
                  ELSE st
      freq == st.freq + st.freq_step
  IN  [recorded EXCEPT
         !.count = (st.count + 1) % U16,
         !.freq = freq,
         !.state = IF freq >= st.freq_max + st.freq_step
                   THEN "CW_RUNNING_DONE" ELSE st.state]

\* the CW_INIT write made by the CW_RUNNING case, given the stepped frequency
cw_running_write(st, freq) ==
  IF freq >= st.freq_max + st.freq_step THEN CwInitDisable
  ELSE IF freq >= st.freq_max THEN CwInitDisable
  ELSE CwInitParams(freq + st.freq_step)

\* cw_service_irq, with the correlation cs read from the CW channel
cw_service_irq(cs) ==
  /\ cw_state.state = "CW_RUNNING" => cw_state.count < MaxCwIrqs
  /\ IF cw_state.state = "CW_RUNNING"
     THEN /\ cw_state' = cw_running_irq(cw_state, cs)
          /\ nap' = << [reg |-> "cw_corr"],
                       cw_running_write(cw_state, cw_state.freq + cw_state.freq_step) >>
          /\ sbp' = IF cw_state.count < SPECTRUM_LEN
                    THEN cw_send_result(cw_state.freq, cw_power(cs))
                    ELSE NoSbp
          /\ ev' = [Event("cw_irq", -1, "running") EXCEPT !.arg = cs]
     ELSE /\ cw_state' = cw_state
          /\ nap' = << CwInitDisable >>
          /\ sbp' = NoSbp
          /\ ev' = [Event("cw_irq", -1, "default") EXCEPT !.arg = cs]
  /\ meas' = NoMeas
  /\ UNCHANGED <<tracking_channel, tracking_lock_counters, loop_params_stage,
                 loop_params_string, isr, n_events, n_resets, hist, pcp, n_sweeps,
                    setting_registered>>

---------------------------------------------------------------------------
(* The tracking controller driving one channel. *)

NoPcp == [step |-> 0]

InitTrack ==
  /\ tracking_channel = [c \in Channels |-> ZeroChannel]
  /\ tracking_lock_counters = LockSeeds
  /\ loop_params_stage = ZeroStages
  /\ loop_params_string = DefaultStored
  /\ isr = [c \in Channels |-> "idle"]
  /\ n_events = [c \in Channels |-> 0]
  /\ n_resets = [p \in Sats |-> 0]
  /\ hist = [c \in Channels |-> NoHist]
  /\ sbp = NoSbp
  /\ nap = << >>
  /\ ev = NoEv
  /\ meas = NoMeas
  /\ pcp = NoPcp
  /\ cw_state = ZeroCw
  /\ n_sweeps = 0
  /\ setting_registered = FALSE

Init == InitTrack

SpecChannels == {0}
SpecSats == {0}

Next ==
  \/ ~setting_registered /\ tracking_setup
  \/ settings_apply_initial
  \/ /\ Operational
     /\ \E c \in SpecChannels :
         \/ \E prn \in SpecSats, f \in InitFreqs, s \in StartCounts, cn0 \in Cn0Inits :
              tracking_channel_init(c, prn, f, s, cn0)
         \/ \E hw \in Readouts : tracking_channel_get_corrs(c, hw)
         \/ \E nav \in NavOutcomes, eng \in EngineOutcomes :
              tracking_channel_update(c, nav, eng)
         \/ tracking_channel_disable(c)
         \/ tracking_channel_ambiguity_unknown(c)
         \/ tracking_update_measurement(c)

Spec == Init /\ [][Next]_vars

---------------------------------------------------------------------------
(* The loop parameter setting being written. *)

\* groups written by the user: the coherent_ms numbers tried
MsWritten == {0, 1, 2, 4, 5, 7, 10, 20, 256, 257, 260}

\* second-stage parameters written with so many digits that the whole text is
\* longer than the setting's buffer, and exactly as long
ParLong == <<"1", "0.7", "1", "1540", "50.0000000000000000000000000000000000", "0.7", "1", "0">>
ParExact == <<"1", "0.7", "1", "1540", "50.000000000000000000000000000000000", "0.7", "1", "0">>

SettingStrings ==
  { <<Group(TRUE, ms, Par1, FALSE)>> : ms \in MsWritten }
  \cup { <<Group(TRUE, 1, Par1, TRUE), Group(TRUE, ms, Par2, FALSE)>> : ms \in MsWritten }
  \cup { <<Group(TRUE, 2, Par1, TRUE), Group(TRUE, 5, Par2, FALSE)>>,
         <<Group(TRUE, 1, Par2, TRUE), Group(FALSE, 5, Par1, FALSE)>>,
         <<Group(FALSE, 1, Par1, TRUE), Group(TRUE, 5, Par2, FALSE)>>,
         <<Group(TRUE, 1, Par2, TRUE)>>,
         <<Group(TRUE, 1, Par2, FALSE), Group(TRUE, 5, Par1, FALSE)>>,
         <<Group(TRUE, 1, Par1, TRUE), Group(TRUE, 5, ParLong, FALSE)>>,
         <<Group(TRUE, 1, Par1, TRUE), Group(TRUE, 5, ParExact, FALSE)>> }

NextCfg ==
  \/ ~setting_registered /\ tracking_setup
  \/ /\ setting_registered
     /\ \E val \in SettingStrings : parse_loop_params(val)

SpecCfg == Init /\ [][NextCfg]_vars

---------------------------------------------------------------------------
(* propagate_code_phase applied to bounded inputs. *)

InitProp ==
  /\ tracking_channel = [c \in Channels |-> ZeroChannel]
  /\ tracking_lock_counters = [p \in Sats |-> 0]
  /\ loop_params_stage = ZeroStages
  /\ loop_params_string = DefaultStored
  /\ isr = [c \in Channels |-> "idle"]
  /\ n_events = [c \in Channels |-> 0]
  /\ n_resets = [p \in Sats |-> 0]
  /\ hist = [c \in Channels |-> NoHist]
  /\ sbp = NoSbp
  /\ nap = << >>
  /\ ev = NoEv
  /\ meas = NoMeas
  /\ \E p \in PropPhases, f \in PropFreqs, n1 \in PropSamples, n2 \in PropSamples :
       pcp = [step |-> 0, code_phase |-> p, carrier_freq |-> f, n1 |-> n1, n2 |-> n2,
              r1 |-> <<0, 0>>, r12 |-> <<0, 0>>, rsum |-> <<0, 0>>]
  /\ cw_state = ZeroCw
  /\ n_sweeps = 0
  /\ setting_registered = FALSE

NextProp == PropFirst \/ PropSecond \/ PropSum

SpecProp == InitProp /\ [][NextProp]_vars

---------------------------------------------------------------------------
(* Two channels, each tracking its own satellite, served in any order. *)

\* the correlator dump, decoder result and loop results of every cycle
TwoReadouts == { [n |-> 16368, cs |-> <<[I |-> 900, Q |-> 20], [I |-> 2000, Q |-> 40],
                                        [I |-> 1000, Q |-> 30]>>] }
TwoNavOutcomes ==
  { [TOW_ms |-> TOW_INVALID, bit_phase |-> 0, bit_phase_ref |-> 0,
     bit_polarity |-> "NORMAL"] }
TwoEngineOutcomes == { [cn0 |-> 35, carr_freq |-> 1100, code_freq |-> 11, err |-> 20] }

\* channel c is given satellite c; the two interrupts together are served
\* MaxUpdates times, and MaxResets + 1 ambiguity resets are made in all
NextTwo ==
  \/ ~setting_registered /\ tracking_setup
  \/ settings_apply_initial
  \/ /\ Operational
     /\ \E c \in Channels :
         \/ /\ n_resets[0] + n_resets[1] <= MaxResets
            /\ \E f \in InitFreqs, s \in StartCounts, cn0 \in Cn0Inits :
                 tracking_channel_init(c, c, f, s, cn0)
         \/ /\ n_events[0] + n_events[1] < MaxUpdates
            /\ \E hw \in TwoReadouts : tracking_channel_get_corrs(c, hw)
         \/ \E nav \in TwoNavOutcomes, eng \in TwoEngineOutcomes :
              tracking_channel_update(c, nav, eng)
         \/ tracking_channel_disable(c)
         \/ /\ n_resets[0] + n_resets[1] <= MaxResets
            /\ tracking_channel_ambiguity_unknown(c)

SpecTwo == Init /\ [][NextTwo]_vars

---------------------------------------------------------------------------
(* The tracking state message, sent while two channels come and go. *)

\* simulation settings: off, or on with a number of simulated satellites
SimInputs ==
  { [enabled |-> FALSE, num_sats |-> 0] }
  \cup { [enabled |-> TRUE, num_sats |-> k] : k \in 0..(Cardinality(Channels) + 1) }

NextState ==
  \/ ~setting_registered /\ tracking_setup
  \/ settings_apply_initial
  \/ /\ Operational
     /\ \/ \E c \in Channels :
            \/ /\ n_resets[0] + n_resets[1] < MaxResets
               /\ \E f \in InitFreqs, s \in StartCounts, cn0 \in Cn0Inits :
                    tracking_channel_init(c, c, f, s, cn0)
            \/ /\ n_events[0] + n_events[1] < MaxStage0
               /\ \E hw \in TwoReadouts : tracking_channel_get_corrs(c, hw)
            \/ \E nav \in TwoNavOutcomes, eng \in EngineOutcomes :
                 tracking_channel_update(c, nav, eng)
            \/ tracking_channel_disable(c)
       \/ \E sim \in SimInputs, outcome \in {"as_written", "undefined"} :
            tracking_send_state(sim, outcome)

SpecState == Init /\ [][NextState]_vars

---------------------------------------------------------------------------
(* One channel tracked while the loop parameter setting is rewritten. *)

\* settings written while the channel runs: the default (stage 1 at 5 ms), a
\* stage 1 at 10 ms, and a string that is rejected (20 % 7 # 0)
ReconfStrings ==
  { DefaultString,
    <<Group(TRUE, 1, Par1, TRUE), Group(TRUE, 10, Par2, FALSE)>>,
    <<Group(TRUE, 1, Par1, TRUE), Group(TRUE, 7, Par2, FALSE)>> }

NextReconf ==
  \/ ~setting_registered /\ tracking_setup
  \/ settings_apply_initial
  \/ /\ Operational
     /\ \/ \E c \in SpecChannels :
            \/ \E prn \in SpecSats, f \in InitFreqs, s \in StartCounts, cn0 \in Cn0Inits :
                 tracking_channel_init(c, prn, f, s, cn0)
            \/ \E hw \in TwoReadouts : tracking_channel_get_corrs(c, hw)
            \/ \E nav \in TwoNavOutcomes, eng \in TwoEngineOutcomes :
                 tracking_channel_update(c, nav, eng)
            \/ tracking_channel_disable(c)
       \/ \E val \in ReconfStrings : parse_loop_params(val)

SpecReconf == Init /\ [][NextReconf]_vars

---------------------------------------------------------------------------
(* One channel whose C/N0 is read out by the measurement extraction and by *)
(* the tracking state message.                                             *)

NextSnr ==
  \/ ~setting_registered /\ tracking_setup
  \/ settings_apply_initial
  \/ /\ Operational
     /\ \/ \E c \in SpecChannels :
            \/ \E prn \in SpecSats, f \in InitFreqs, s \in StartCounts \cup LowStartCounts, cn0 \in Cn0Inits :
                 tracking_channel_init(c, prn, f, s, cn0)
            \/ /\ n_events[c] < MaxStage0
               /\ \E hw \in TwoReadouts : tracking_channel_get_corrs(c, hw)
            \/ \E nav \in TwoNavOutcomes, eng \in EngineOutcomes :
                 tracking_channel_update(c, nav, eng)
            \/ tracking_channel_disable(c)
            \/ tracking_update_measurement(c)
       \/ \E sim \in SimInputs, outcome \in {"as_written", "undefined"} :
            tracking_send_state(sim, outcome)

SpecSnr == Init /\ [][NextSnr]_vars

---------------------------------------------------------------------------
(* CW sweeps started by the host and served by the CW DONE interrupt. *)

\* sweeps asked for, <<freq_min, freq_max, freq_bin_width>> in Hz: three
\* points; a single point; a range starting below zero; a bin width of
\* zero; one point more than spectrum_power holds; two points of which the
\* second, 21767675 units, is not a float
CwInputs ==
  { <<0, 2, 1>>, <<5, 5, 1>>, <<-2, 1, 1>>, <<0, 2, 0>>, <<0, SPECTRUM_LEN, 1>>,
    <<40999, 41957, 41957>> }

\* the correlation read on an interrupt
CwCorrs == { [I |-> -3, Q |-> 4] }

\* the strobe counts of the loads scheduled
CwLoadCounts == {5}

\* a load is scheduled at any time; the load done interrupt is raised for a
\* load that was scheduled
NextCW ==
  \/ \E in \in CwInputs : cw_start(in[1], in[2], in[3])
  \/ \E cs \in CwCorrs : cw_service_irq(cs)
  \/ \E count \in CwLoadCounts : cw_schedule_load(count)
  \/ cw_state.state = "CW_LOADING" /\ cw_service_load_done

SpecCW == Init /\ [][NextCW]_vars

\* the CW channel raises its interrupt for as long as it is enabled
FairSpecCW == SpecCW /\ WF_vars(\E cs \in CwCorrs : cw_service_irq(cs))

---------------------------------------------------------------------------
(* Properties. *)

\* whether the step made is operation op on channel c
Did(op, c) == ev'.op = op /\ ev'.ch = c

\* whether the step made is an ambiguity reset for satellite p
ResetOn(p) ==
  \/ ev'.op = "init" /\ ev'.arg[1] = p
  \/ ev'.op = "ambiguity_unknown" /\ tracking_channel[ev'.ch].prn = p

\* C1 as claimed: every lock table entry, and the lock_counter of every
\* channel that keeps its satellite, never decreases, and an ambiguity reset
\* strictly increases the entry.
C1_NeverDecreases ==
  [][ /\ \A p \in Sats :
           /\ tracking_lock_counters'[p] >= tracking_lock_counters[p]
           /\ ResetOn(p) => tracking_lock_counters'[p] > tracking_lock_counters[p]
      /\ \A c \in Channels :
           tracking_channel'[c].prn = tracking_channel[c].prn
             => tracking_channel'[c].lock_counter >= tracking_channel[c].lock_counter
    ]_vars

\* C1 amended: an ambiguity reset (that of init included) advances the entry
\* of its satellite by one modulo 2^16, strictly increasing it unless it was
\* 65535, and copies it to the channel; nothing else changes an entry or a
\* channel's lock_counter.
C1_IncrementsModulo ==
  [][ /\ \A p \in Sats :
           LET old == tracking_lock_counters[p]
               new == tracking_lock_counters'[p]
           IN  IF ResetOn(p)
               THEN /\ new = (old + 1) % U16
                    /\ old < U16 - 1 => new > old
                    /\ tracking_channel'[ev'.ch].lock_counter = new
               ELSE new = old
      /\ \A c \in Channels :
           tracking_channel'[c].lock_counter # tracking_channel[c].lock_counter
             => ev'.ch = c /\ ev'.op \in {"init", "ambiguity_unknown"}
    ]_vars

\* a re-init whose ambiguity reset wrapped the entry from 65535 to 0
C1_Witness ==
  /\ ev.op = "init"
  /\ n_resets[0] = 2
  /\ tracking_lock_counters[0] = 0
  /\ tracking_channel[0].lock_counter = 0

\* C2: the stage of a channel changes only by init (to 0) or by a full update
\* of a Running channel in stage 0 with coherent_ms 1 whose decoder reports
\* bit_phase = bit_phase_ref (to 1); right after that promotion coherent_ms is
\* the configured stage-1 value, short_cycle is true and mode_change_count is
\* update_count.  So a session is promoted at most once.
C2_StagePromotion ==
  [][ \A c \in Channels :
        LET old == tracking_channel[c]
            new == tracking_channel'[c]
        IN  /\ new.stage \in {0, 1}
            /\ new.stage # old.stage =>
                 \/ Did("init", c) /\ new.stage = 0
                 \/ /\ Did("update", c) /\ ev'.path = "full"
                    /\ old.state = "RUNNING"
                    /\ old.stage = 0 /\ new.stage = 1
                    /\ old.int_ms = 1
                    /\ new.nav_msg.bit_phase = new.nav_msg.bit_phase_ref
                    /\ new.int_ms = LP(1).coherent_ms
                    /\ new.short_cycle
                    /\ new.mode_change_count = new.update_count
    ]_vars

\* a full update in stage 1 at a bit edge: the promotion is not repeated
C2_Witness ==
  /\ ev.op = "update" /\ ev.path = "full" /\ ~ev.promoted
  /\ tracking_channel[0].stage = 1
  /\ tracking_channel[0].nav_msg.bit_phase = tracking_channel[0].nav_msg.bit_phase_ref

\* the fields a short half may change
ShortHalfFrame(old, new) ==
  new = [old EXCEPT !.sample_count = new.sample_count,
                    !.code_phase_early = new.code_phase_early,
                    !.carrier_phase = new.carrier_phase,
                    !.code_phase_rate_fp_prev = new.code_phase_rate_fp_prev,
                    !.carrier_freq_fp_prev = new.carrier_freq_fp_prev,
                    !.TOW_ms = new.TOW_ms,
                    !.short_cycle = FALSE]

\* C3: an update of a Running channel with coherent_ms > 1 and short_cycle
\* true is a short half: bookkeeping, one early register write with the
\* current rates and zero flags, nothing else; every other update (all of
\* them with coherent_ms = 1, and the one after a short half) runs the full
\* pipeline and leaves short_cycle true, so that the halves alternate from
\* the promotion on.
C3_ShortLongAlternation ==
  [][ \A c \in Channels :
        LET old == tracking_channel[c]
            new == tracking_channel'[c]
        IN  Did("update", c) /\ old.state = "RUNNING" =>
              IF old.int_ms > 1 /\ old.short_cycle
              THEN /\ ev'.path = "short"
                   /\ ShortHalfFrame(old, new)
                   /\ nap' = << UpdateWr(c, old.carrier_freq_fp,
                                         old.code_phase_rate_fp, 0, 0) >>
              ELSE /\ ev'.path = "full"
                   /\ new.update_count = old.update_count + old.int_ms
                   /\ new.nav_msg.bit_phase = ev'.nav.bit_phase
                   /\ new.cn0 = ev'.eng.cn0
                   /\ new.carrier_freq = ev'.eng.carr_freq
                   /\ new.short_cycle
                   /\ old.int_ms = 1 => old.short_cycle
    ]_vars

\* the full update that completes a short/long pair in stage 1
C3_Witness ==
  /\ ev.op = "update" /\ ev.path = "full" /\ ~ev.promoted
  /\ tracking_channel[0].stage = 1
  /\ tracking_channel[0].int_ms > 1
  /\ tracking_channel[0].update_count
       = tracking_channel[0].mode_change_count + tracking_channel[0].int_ms

\* C4: TOW_ms of every channel is TOW_INVALID or lies in [0, one week)
C4_TowInRange ==
  \A c \in Channels :
    \/ tracking_channel[c].TOW_ms = TOW_INVALID
    \/ 0 <= tracking_channel[c].TOW_ms /\ tracking_channel[c].TOW_ms < WEEK_MS

\* a short half that carried a known TOW over the end of the week
C4_Witness ==
  /\ ev.op = "update" /\ ev.path = "short"
  /\ tracking_channel[0].state = "RUNNING"
  /\ tracking_channel[0].TOW_ms = 0

\* C5: an update whose decoder supplies no candidate (a short half, or a full
\* update whose decoder returns TOW_INVALID) keeps an invalid TOW invalid and
\* advances a known one by 1 when taken with short_cycle true and by
\* coherent_ms - 1 otherwise, modulo one week; update_count grows by
\* coherent_ms in the full update and not at all in the short half.
C5_TowAdvance ==
  [][ \A c \in Channels :
        LET old == tracking_channel[c]
            new == tracking_channel'[c]
        IN  Did("update", c) /\ old.state = "RUNNING" =>
              /\ new.update_count - old.update_count
                   = IF ev'.path = "short" THEN 0 ELSE old.int_ms
              /\ (ev'.path = "short" \/ ev'.nav.TOW_ms = TOW_INVALID) =>
                   new.TOW_ms =
                     IF old.TOW_ms = TOW_INVALID THEN TOW_INVALID
                     ELSE (old.TOW_ms + (IF old.short_cycle THEN 1
                                         ELSE old.int_ms - 1)) % WEEK_MS
    ]_vars

\* a long half that advanced a known TOW without a decoder candidate
C5_Witness ==
  /\ ev.op = "update" /\ ev.path = "full" /\ ~ev.promoted
  /\ ev.nav.TOW_ms = TOW_INVALID
  /\ tracking_channel[0].int_ms > 1
  /\ tracking_channel[0].TOW_ms # TOW_INVALID

\* the group of a settings string that a stage is parsed from
StageGroup(val, stage) ==
  IF stage = 0 \/ ~val[1].comma THEN val[1] ELSE val[2]

\* whether a settings string has a malformed stage or an invalid coherent_ms
MustFail(val) ==
  \E stage \in {0, 1} :
    \/ stage = 1 /\ val[1].comma /\ Len(val) < 2
    \/ ~StageGroup(val, stage).wf
    \/ U8Of(StageGroup(val, stage).ms) \notin {1, 2, 4, 5, 10, 20}
    \/ stage = 0 /\ U8Of(StageGroup(val, stage).ms) # 1

\* both active stages are the ones written in the settings string just given
ActiveFromWritten ==
  \A stage \in {0, 1} :
    /\ LP(stage).par = StageGroup(ev.arg, stage).par
    /\ LP(stage).coherent_ms = U8Of(StageGroup(ev.arg, stage).ms)

\* C6: a settings string with a stage that fails validation leaves the
\* active parameters of both stages and the stored string as they were; the
\* active parameters change only when a string is accepted, and then both
\* stages are the ones written in that one string.
C6_AllOrNothing ==
  [][ /\ (ev'.op = "parse" /\ MustFail(ev'.arg)) =>
             /\ ev'.path = "false"
             /\ UNCHANGED <<loop_params_stage, loop_params_string>>
      /\ (ev'.op = "parse" /\ ev'.path = "true") => ActiveFromWritten'
      /\ loop_params_stage' # loop_params_stage =>
             ev'.op = "parse" /\ ev'.path = "true"
    ]_vars

\* a rejected string whose first stage is valid and differs from the active
\* one, with a configuration other than the default in effect
C6_Witness ==
  /\ ev.op = "parse" /\ ev.path = "false"
  /\ ev.arg[1].wf /\ ev.arg[1].ms = 1
  /\ ev.arg[1].par # LP(0).par
  /\ loop_params_string.text # DefaultString

\* C7 as claimed: an accepted string has, for each stage, a coherent_ms
\* written as one of 1, 2, 4, 5, 10, 20, as 1 for the first stage, and the
\* active coherent_ms is the number written.
C7_OnlyDivisorsAccepted ==
  (ev.op = "parse" /\ ev.path = "true") =>
    \A stage \in {0, 1} :
      LET g == StageGroup(ev.arg, stage)
      IN  /\ g.ms \in {1, 2, 4, 5, 10, 20}
          /\ stage = 0 => g.ms = 1
          /\ LP(stage).coherent_ms = g.ms

\* C8: measurement extraction changes no channel and no lock table entry;
\* its carrier phase is the accumulator (units of 2^-24 cycle) plus half a
\* cycle exactly when the bit polarity is inverted; and with another polarity
\* the extraction would differ in the carrier phase only.
C8_MeasurementReadOnly ==
  [][ ev'.op = "measurement" =>
        LET chan == tracking_channel[ev'.ch]
        IN  /\ UNCHANGED <<tracking_channel, tracking_lock_counters,
                           loop_params_stage, loop_params_string>>
            /\ meas'.carrier_phase - chan.carrier_phase
                 = IF chan.nav_msg.bit_polarity = "INVERTED"
                   THEN CARRIER_PHASE_UNITS_PER_CYCLE \div 2 ELSE 0
            /\ \A pol \in {"UNKNOWN", "NORMAL", "INVERTED"} :
                 [measurement([chan EXCEPT !.nav_msg.bit_polarity = pol])
                    EXCEPT !.carrier_phase = 0]
                 = [meas' EXCEPT !.carrier_phase = 0]
    ]_vars

\* an extraction with inverted polarity and a nonzero accumulator
C8_Witness ==
  /\ ev.op = "measurement"
  /\ tracking_channel[0].nav_msg.bit_polarity = "INVERTED"
  /\ tracking_channel[0].carrier_phase # 0
  /\ meas.carrier_phase
       = tracking_channel[0].carrier_phase + CARRIER_PHASE_UNITS_PER_CYCLE \div 2

\* a propagated code phase: whole sub-chips below 1023 chips
PropInRange(r) == 0 <= r[1] /\ r[1] < 1023 * 16 /\ r[2] = 0

\* C9: every result of propagate_code_phase lies in [0, 1023) chips, and
\* propagating by n1 then n2 samples is within one sub-chip, modulo 1023
\* chips, of propagating by n1 + n2 samples.
C9_PropagateComposes ==
  /\ pcp.step >= 1 => PropInRange(pcp.r1)
  /\ pcp.step >= 2 => PropInRange(pcp.r12)
  /\ pcp.step >= 3 =>
       /\ PropInRange(pcp.rsum)
       /\ (pcp.r12[1] - pcp.rsum[1]) % (1023 * 16) \in {0, 1, 1023 * 16 - 1}

\* a composition that wrapped the code period and lost one sub-chip
C9_Witness ==
  /\ pcp.step = 3
  /\ pcp.code_phase[1] + pcp.n1 + pcp.n2 >= 1023 * 16
  /\ pcp.r12 # pcp.rsum

\* C10: an update of a channel that is not Running only sets its state to
\* Disabled, with one all-zero register write; a Running channel stops
\* running only by disable, never by an update; a Disabled channel stays
\* Disabled until it is initialised.
C10_DisabledUntilInit ==
  [][ \A c \in Channels :
        LET old == tracking_channel[c]
            new == tracking_channel'[c]
        IN  /\ Did("update", c) /\ old.state # "RUNNING" =>
                 /\ ev'.path = "fallback"
                 /\ new = [old EXCEPT !.state = "DISABLED"]
                 /\ nap' = << UpdateWr(c, 0, 0, 0, 0) >>
            /\ Did("update", c) /\ old.state = "RUNNING" => new.state = "RUNNING"
            /\ old.state = "RUNNING" /\ new.state # "RUNNING" =>
                 /\ Did("disable", c)
                 /\ new = [old EXCEPT !.state = "DISABLED"]
                 /\ nap' = << UpdateWr(c, 0, 0, 0, 0) >>
            /\ old.state = "DISABLED" /\ ~Did("init", c) => new.state = "DISABLED"
    ]_vars

\* a stray update on a channel disabled in the middle of a session
C10_Witness ==
  /\ ev.op = "update" /\ ev.path = "fallback"
  /\ tracking_channel[0].state = "DISABLED"
  /\ tracking_channel[0].update_count > 0

\* every lock table entry is its seed plus the resets made for its satellite
LockCountsAddUp ==
  \A p \in Sats : tracking_lock_counters[p] = (LockSeeds[p] + n_resets[p]) % U16

\* C11: an operation on one channel leaves the whole state of the other
\* channel as it was, and every lock table entry is its seed plus the number
\* of ambiguity resets made for its satellite, modulo 2^16, in whatever order
\* the operations of the two channels are taken.
C11_ChannelsIndependent ==
  [][ /\ \A c \in Channels :
           ev'.ch # c => tracking_channel'[c] = tracking_channel[c]
      /\ \A p \in Sats :
           tracking_lock_counters'[p]
             = (tracking_lock_counters[p] + (IF ResetOn(p) THEN 1 ELSE 0)) % U16
      /\ LockCountsAddUp'
    ]_vars

\* both channels running on their own satellites, channel 0 promoted, and
\* an external ambiguity reset just made on channel 1
C11_Witness ==
  /\ ev.op = "ambiguity_unknown" /\ ev.ch = 1
  /\ tracking_channel[0].state = "RUNNING" /\ tracking_channel[0].prn = 0
  /\ tracking_channel[0].stage = 1
  /\ tracking_channel[1].state = "RUNNING" /\ tracking_channel[1].prn = 1
  /\ n_resets[0] = 1 /\ n_resets[1] = 2
  /\ tracking_channel[0].lock_counter = tracking_lock_counters[0]
  /\ tracking_channel[1].lock_counter = tracking_lock_counters[1]
  /\ tracking_lock_counters[1] # tracking_lock_counters[0]

\* what init leaves in channel c, whatever the slot held before
InitPost(c) ==
  LET new == tracking_channel'[c]
      prn == ev'.arg[1]
  IN  /\ new.state = "RUNNING" /\ new.prn = prn
      /\ new.stage = 0
      /\ new.int_ms = LP(0).coherent_ms
      /\ new.short_cycle
      /\ new.TOW_ms = TOW_INVALID
      /\ new.nav_msg.bit_polarity = "UNKNOWN"
      /\ new.code_phase_rate_fp_prev = new.code_phase_rate_fp
      /\ new.carrier_freq_fp_prev = new.carrier_freq_fp
      /\ new.code_phase_early = <<0, 0>>
      /\ new.carrier_phase = 0
      /\ new.update_count = 0
      /\ new.mode_change_count = 0
      /\ new.lock_counter = (tracking_lock_counters[prn] + 1) % U16
      /\ tracking_lock_counters' =
           [tracking_lock_counters EXCEPT ![prn] = (@ + 1) % U16]

\* C12 as claimed: init on a slot in any prior state ends Running in stage 0
\* with the stage-0 coherent_ms, short_cycle true, TOW invalid, polarity
\* unknown, _prev rates equal to the current ones, the lock counter advanced
\* by one reset, and code_phase_early, carrier_phase, update_count,
\* mode_change_count and the cs accumulators all zero.
C12_InitZeroesAll ==
  [][ \A c \in Channels :
        Did("init", c) =>
          /\ InitPost(c)
          /\ tracking_channel'[c].cs = <<ZeroCorr, ZeroCorr, ZeroCorr>>
    ]_vars

\* C12 amended: as claimed, except that init does not touch the cs
\* accumulators: they keep what the slot held before (zero only on a slot
\* never used) until the first readout of the session overwrites them.
C12_InitKeepsCs ==
  [][ \A c \in Channels :
        Did("init", c) =>
          /\ InitPost(c)
          /\ tracking_channel'[c].cs = tracking_channel[c].cs
    ]_vars

\* a re-init of a channel that was Running in stage 1 with the long half of
\* a pair read out: cs still holds the sum of the two dumps
C12_Witness ==
  /\ ev.op = "init" /\ ev.ch = 0
  /\ n_resets[0] = 2
  /\ n_events[0] = 2
  /\ \E r1 \in Readouts, r2 \in Readouts :
       tracking_channel[0].cs = AddCorrs(r1.cs, r2.cs)
  /\ tracking_channel[0].stage = 0
  /\ tracking_channel[0].update_count = 0

\* C13 as claimed: in a full update with coherent_ms # 1, an alias error
\* whose magnitude exceeds 250/coherent_ms makes carrier_freq the loop filter
\* output plus the error, sets the loop filter's carrier frequency and filter
\* state to that value and mode_change_count to update_count; a smaller
\* error leaves the loop filter output and mode_change_count as they are.
C13_FalseLockCorrectsCarrierFreq ==
  [][ \A c \in Channels :
        LET old == tracking_channel[c]
            new == tracking_channel'[c]
            eng == ev'.eng
        IN  Did("update", c) /\ ev'.path = "full" /\ old.int_ms # 1 =>
              IF Abs(eng.err) > 250 \div old.int_ms
              THEN /\ new.carrier_freq = eng.carr_freq + eng.err
                   /\ new.tl_state.carr_freq = eng.carr_freq + eng.err
                   /\ new.tl_state.carr_filt_y = eng.carr_freq + eng.err
                   /\ new.mode_change_count = new.update_count
              ELSE /\ new.carrier_freq = eng.carr_freq
                   /\ new.tl_state.carr_freq = eng.carr_freq
                   /\ new.tl_state.carr_filt_y = eng.carr_freq
                   /\ new.mode_change_count = old.mode_change_count
    ]_vars

\* the _prev rates of channel c are those of the second-most-recent rate
\* write of its session, or of the only one
PrevAreWritten(c) ==
  /\ Len(hist[c].wr) >= 1
  /\ tracking_channel[c].carrier_freq_fp_prev = hist[c].wr[1].carrier_freq
  /\ tracking_channel[c].code_phase_rate_fp_prev = hist[c].wr[1].code_phase_rate

\* the roll of the _prev rates made by an update of channel c
PrevRolled(c) ==
  LET old == tracking_channel[c]
      new == tracking_channel'[c]
  IN  IF ev'.path = "short"
      THEN /\ new.carrier_freq_fp_prev = new.carrier_freq_fp
           /\ new.code_phase_rate_fp_prev = new.code_phase_rate_fp
      ELSE /\ new.carrier_freq_fp_prev = old.carrier_freq_fp
           /\ new.code_phase_rate_fp_prev = old.code_phase_rate_fp

\* C14 as claimed: every update of a Running channel advances
\* code_phase_early and carrier_phase by corr_sample_count times the _prev
\* rates held on entry, which are the rates of the second-most-recent rate
\* write to the channel (of the write of init when it is the only one);
\* after a short half _prev is the current rates, after a full update the
\* rates current on entry.
C14_PrevRatesIntegrated ==
  [][ \A c \in Channels :
        LET old == tracking_channel[c]
            new == tracking_channel'[c]
            n   == old.corr_sample_count
        IN  Did("update", c) /\ old.state = "RUNNING" =>
              /\ PrevAreWritten(c)
              /\ new.code_phase_early
                   = U64AddMul(old.code_phase_early, n, old.code_phase_rate_fp_prev)
              /\ new.carrier_phase - old.carrier_phase = n * old.carrier_freq_fp_prev
              /\ PrevRolled(c)
    ]_vars

\* C14 amended: as claimed, except that in the first update after init the
\* carrier_phase advance is one _prev unit less, that is
\* (corr_sample_count - 1) times the _prev carrier rate.
C14_PrevRatesButFirst ==
  [][ \A c \in Channels :
        LET old == tracking_channel[c]
            new == tracking_channel'[c]
            n   == old.corr_sample_count
        IN  Did("update", c) /\ old.state = "RUNNING" =>
              /\ PrevAreWritten(c)
              /\ new.code_phase_early
                   = U64AddMul(old.code_phase_early, n, old.code_phase_rate_fp_prev)
              /\ new.carrier_phase - old.carrier_phase
                   = IF Len(hist[c].wr) = 1
                     THEN (n - 1) * old.carrier_freq_fp_prev
                     ELSE n * old.carrier_freq_fp_prev
              /\ PrevRolled(c)
    ]_vars

\* a long half with a false-lock correction, after which the _prev rates are
\* those written two writes ago and differ from the rates just commanded
C14_Witness ==
  /\ ev.op = "update" /\ ev.path = "full" /\ ev.false_lock
  /\ tracking_channel[0].stage = 1
  /\ Len(hist[0].wr) = 2
  /\ tracking_channel[0].carrier_freq_fp_prev = hist[0].wr[1].carrier_freq
  /\ tracking_channel[0].carrier_freq_fp = hist[0].wr[2].carrier_freq
  /\ tracking_channel[0].carrier_freq_fp_prev # tracking_channel[0].carrier_freq_fp
  /\ tracking_channel[0].carrier_phase # 0

\* C15: at every full update of a Running channel with coherent_ms > 1, cs
\* is the element-wise sum of the two most recent dumps read in the session
\* and the alias detector's first capture is the prompt I/Q of the earlier of
\* the two; with coherent_ms = 1, cs is the latest dump alone.  The update
\* itself leaves cs as it is.
C15_CsIsSumOfPair ==
  [][ \A c \in Channels :
        LET old == tracking_channel[c]
            new == tracking_channel'[c]
            rd  == hist[c].rd
        IN  Did("update", c) /\ ev'.path = "full" =>
              /\ new.cs = old.cs
              /\ IF old.int_ms > 1
                 THEN /\ Len(rd) = 2
                      /\ old.cs = AddCorrs(rd[1].cs, rd[2].cs)
                      /\ old.alias_detect.first_I = rd[1].cs[2].I
                      /\ old.alias_detect.first_Q = rd[1].cs[2].Q
                 ELSE Len(rd) >= 1 => old.cs = rd[Len(rd)].cs
    ]_vars

\* the long half of a pair whose two dumps differ
C15_Witness ==
  /\ ev.op = "update" /\ ev.path = "full" /\ ~ev.promoted
  /\ tracking_channel[0].stage = 1
  /\ Len(hist[0].rd) = 2
  /\ hist[0].rd[1] # hist[0].rd[2]
  /\ tracking_channel[0].cs = AddCorrs(hist[0].rd[1].cs, hist[0].rd[2].cs)
  /\ tracking_channel[0].alias_detect.first_I = hist[0].rd[1].cs[2].I

\* C16 as claimed: every readout, whatever the state of the channel,
\* records the elapsed sample count of the dump in corr_sample_count.
C16_ReadoutAlwaysRecords ==
  [][ \A c \in Channels :
        Did("get_corrs", c) => tracking_channel'[c].corr_sample_count = ev'.arg.n
    ]_vars

\* C16 amended: a readout of a Running channel, on the accumulate and on the
\* overwrite path alike, records the elapsed sample count of its dump, and
\* the update that follows it adds that count to sample_count; a readout of
\* a channel that is not Running leaves the channel as it is, and an update
\* of such a channel adds nothing to sample_count.
C16_RunningReadoutRecords ==
  [][ \A c \in Channels :
        LET old == tracking_channel[c]
            new == tracking_channel'[c]
        IN  /\ Did("get_corrs", c) =>
                 IF old.state = "RUNNING"
                 THEN new.corr_sample_count = ev'.arg.n
                 ELSE new = old
            /\ Did("update", c) =>
                 IF old.state = "RUNNING"
                 THEN /\ new.sample_count = U32Add(old.sample_count, old.corr_sample_count)
                      /\ (ev.op = "get_corrs" /\ ev.ch = c /\ ev.path # "none")
                           => new.sample_count = U32Add(old.sample_count, ev.arg.n)
                 ELSE new.sample_count = old.sample_count
    ]_vars

\* a readout of a Disabled channel that kept the count of an earlier dump
C16_Witness ==
  /\ ev.op = "get_corrs" /\ ev.ch = 0 /\ ev.path = "none"
  /\ tracking_channel[0].state = "DISABLED"
  /\ tracking_channel[0].corr_sample_count > 0
  /\ tracking_channel[0].corr_sample_count # ev.arg.n

\* the TOW of a channel after the millisecond advance of an update
TowAdvanced(old) ==
  IF old.TOW_ms = TOW_INVALID THEN TOW_INVALID
  ELSE (old.TOW_ms + (IF old.short_cycle THEN 1 ELSE old.int_ms - 1)) % WEEK_MS

\* C17 as claimed: in a full update, a decoder candidate in [0, one week),
\* 0 included, is the channel's TOW_ms after the update, whether the TOW was
\* known or invalid before, and the channel stays Running; without a valid
\* candidate TOW_ms is changed by the millisecond advance only.
C17_CandidateAdopted ==
  [][ \A c \in Channels :
        LET old  == tracking_channel[c]
            new  == tracking_channel'[c]
            cand == ev'.nav.TOW_ms
        IN  Did("update", c) /\ ev'.path = "full" =>
              /\ new.state = "RUNNING"
              /\ IF 0 <= cand /\ cand < WEEK_MS
                 THEN new.TOW_ms = cand
                 ELSE new.TOW_ms = TowAdvanced(old)
    ]_vars

\* C18: the subtraction of one carrier_freq_fp_prev from carrier_phase is
\* made in the first update after each init of a channel, which is a full
\* update with update_count 0, and in no later update of the session, short
\* halves and updates after the promotion included.
C18_OneSampleOnce ==
  [][ \A c \in Channels :
        LET old   == tracking_channel[c]
            new   == tracking_channel'[c]
            first == Len(hist[c].wr) = 1
            short == new.carrier_phase - old.carrier_phase
                       - old.corr_sample_count * old.carrier_freq_fp_prev
        IN  Did("update", c) /\ old.state = "RUNNING" =>
              /\ old.carrier_freq_fp_prev # 0
              /\ first <=> old.update_count = 0
              /\ first => ev'.path = "full"
              /\ short = IF first THEN - old.carrier_freq_fp_prev ELSE 0
    ]_vars

\* the short half that follows a promotion made by the first update of the
\* only session: the compensation was made once in the two updates
C18_Witness ==
  /\ ev.op = "update" /\ ev.path = "short"
  /\ n_events[0] = 2 /\ n_resets[0] = 1
  /\ tracking_channel[0].stage = 1
  /\ \E f \in InitFreqs, r1 \in Readouts, r2 \in Readouts :
       tracking_channel[0].carrier_phase = carrier_freq_to_fp(f) * (r1.n + r2.n - 1)

\* C19: every update issues exactly one register access, a rate write for
\* its channel: all zero when the channel is not Running; the unchanged
\* current rates with cycle-length field 0 on a short half; on a full update
\* the fixed-point carrier frequency and code rate computed from this cycle's
\* loop filter output, with cycle-length field 0 when coherent_ms is 1 and
\* coherent_ms - 2 otherwise, coherent_ms being the value after a promotion
\* made in the same update.
C19_OneWritePerUpdate ==
  [][ \A c \in Channels :
        LET old == tracking_channel[c]
            new == tracking_channel'[c]
            eng == ev'.eng
        IN  Did("update", c) =>
              /\ Len(nap') = 1
              /\ nap'[1] =
                   IF old.state # "RUNNING" THEN UpdateWr(c, 0, 0, 0, 0)
                   ELSE IF old.int_ms > 1 /\ old.short_cycle
                   THEN UpdateWr(c, old.carrier_freq_fp, old.code_phase_rate_fp, 0, 0)
                   ELSE UpdateWr(c, carrier_freq_to_fp(eng.carr_freq),
                                 code_phase_rate_to_fp(eng.code_freq + CHIPPING_RATE_Q),
                                 IF new.int_ms = 1 THEN 0 ELSE new.int_ms - 2, 0)
              /\ old.state = "RUNNING" =>
                   /\ nap'[1].carrier_freq = new.carrier_freq_fp
                   /\ nap'[1].code_phase_rate = new.code_phase_rate_fp
    ]_vars

\* the promoting update: its write already carries the stage-1 cycle length
C19_Witness ==
  /\ ev.op = "update" /\ ev.path = "full" /\ ev.promoted
  /\ Len(nap) = 1
  /\ tracking_channel[0].int_ms > 2
  /\ nap[1].rollover_count = tracking_channel[0].int_ms - 2
  /\ nap[1].carrier_freq = carrier_freq_to_fp(ev.eng.carr_freq)

\* C20 as claimed: the tracking state message has exactly one entry per
\* channel and nothing is written outside the array; in normal mode entry i
\* is channel i's state and satellite, with its C/N0 if Running and -1
\* otherwise; in simulated mode, for every simulated satellite count k, the
\* first k entries are the simulation's and the others Disabled with cn0 -1.
C20_SnapshotWithinArray ==
  ev.op = "send_state" =>
    /\ sbp.msg = "TRACKING_STATE"
    /\ sbp.overrun = {}
    /\ DOMAIN sbp.states = Channels
    /\ \A i \in Channels :
         IF ev.arg.enabled
         THEN sbp.states[i] =
                IF i < ev.arg.num_sats THEN SimState(i)
                ELSE [state |-> "DISABLED", sid |-> 0, cn0 |-> -1]
         ELSE /\ sbp.states[i].state = tracking_channel[i].state
              /\ sbp.states[i].sid = tracking_channel[i].prn
              /\ sbp.states[i].cn0 =
                   IF tracking_channel[i].state = "RUNNING"
                   THEN tracking_channel[i].cn0 ELSE -1


\* C21 as claimed: whenever a channel is Running, its lock_counter is the
\* current lock table entry of its satellite, whatever inits, disables,
\* updates and ambiguity resets were made on any channel, those made on a
\* Disabled or never initialised channel included.
C21_LockCounterIsTableEntry ==
  \A c \in Channels :
    tracking_channel[c].state = "RUNNING" =>
      tracking_channel[c].lock_counter
        = tracking_lock_counters[tracking_channel[c].prn]

\* C22 as claimed: for every channel at stage 1, the coherent length the
\* alias detector was configured with at init is the channel's current
\* coherent_ms, however channel inits, updates and accepted loop parameter
\* settings interleave.
C22_AliasDetectorMatchesStage ==
  \A c \in Channels :
    tracking_channel[c].state = "RUNNING" /\ tracking_channel[c].stage = 1 =>
      tracking_channel[c].alias_detect.coherent_ms = tracking_channel[c].int_ms

\* C23 as claimed: for a Running channel that has had no full update since
\* its most recent init, the C/N0 given out by the measurement extraction
\* and by the tracking state message is the initial C/N0 estimate supplied
\* to that init, never a value left from before the init.
C23_Cn0IsFromThisSession ==
  \A c \in Channels :
    tracking_channel[c].state = "RUNNING" /\ tracking_channel[c].update_count = 0 =>
      /\ ev.op = "measurement" /\ ev.ch = c => meas.snr = hist[c].cn0_init
      /\ ev.op = "send_state" /\ ev.path = "normal" /\ sbp.msg = "TRACKING_STATE" =>
           sbp.states[c].cn0 = hist[c].cn0_init

\* what C24 says of one served CW interrupt
CwIrqAsClaimed ==
  LET st == cw_state
      new == cw_state'
      power == cw_power(ev'.arg)
  IN  IF ev'.path = "running"
      THEN \* the result for frequency freq_min + count * step is recorded
           \* within the array and reported
           /\ st.freq = st.freq_min + st.count * st.freq_step
           /\ st.count < SPECTRUM_LEN
           /\ new.spectrum_power = [st.spectrum_power EXCEPT ![st.count] = power]
           /\ sbp'.msg = "CW_RESULTS"
           /\ sbp'.power = power
           \* the frequency reported is st.freq to the precision of a float
           /\ 2 * Abs(sbp'.freq.m * sbp'.freq.q - st.freq) <= sbp'.freq.q
           /\ new.count = st.count + 1
           \* the sweep is done with the first frequency at or above freq_max
           /\ new.state = IF st.freq >= st.freq_max
                          THEN "CW_RUNNING_DONE" ELSE "CW_RUNNING"
           \* the last two interrupts write disable, the others the next
           \* but one frequency
           /\ nap'[2] = IF st.freq + st.freq_step >= st.freq_max
                        THEN CwInitDisable
                        ELSE CwInitParams(st.freq + 2 * st.freq_step)
           /\ new.state = "CW_RUNNING_DONE" /\ st.count >= 1 => nap[2] = CwInitDisable
      ELSE /\ new = st
           /\ nap' = << CwInitDisable >>
           /\ sbp' = NoSbp

\* C24 as claimed: a sweep started with any freq_min, freq_max and bin width
\* reaches CW_RUNNING_DONE after finitely many served interrupts; each
\* interrupt served while running records, at an index below SPECTRUM_LEN,
\* and reports the power of one frequency freq_min, freq_min + step, ... up
\* to the first one at or above freq_max; the last two interrupts of the
\* sweep write disable; an interrupt served in any other state only writes
\* disable and leaves cw_state as it is.  A sweep given up because a sample
\* load was scheduled during it is not held against the claim.
C24_SweepCompletes ==
  /\ [][ ev'.op = "cw_irq" => CwIrqAsClaimed ]_vars
  /\ (cw_state.state = "CW_RUNNING")
       ~> (cw_state.state \in {"CW_RUNNING_DONE", "CW_LOADING", "CW_LOADING_DONE"})

===========================================================================
